---- MODULE Spec2Model ----
(***************************************************************************)
(* pocket-state: the store engine of createStore (state cell, middleware   *)
(* pipeline, terminal committer, notification bus, the three setValue      *)
(* shapes, setImmer, reset, subscribe).  Every handler is one action: the  *)
(* handler runs to completion, the listeners it dispatches included.       *)
(***************************************************************************)
EXTENDS Integers, Sequences, FiniteSets, TLC

\* ---------------------------------------------------------------- bounds
MaxVal == 2        \* field values are 0..MaxVal
MaxLen == 2        \* longest sequence state
MaxOps == 4        \* API calls and promise settlements per behaviour
MaxSubs == 2       \* subscribe calls per behaviour
MaxPending == 2    \* promises handed to setValue per behaviour

Fields == {"a", "b"}
Vals == 0..MaxVal
Undef == -1        \* the JavaScript value undefined held by a field

VARIABLES
    kind,      \* "rec": T is a record, "seq": T is an array, "prim": T is a
               \* primitive
    mws,       \* the middlewares argument of createStore
    initial,   \* _initialState
    state,     \* the state cell: [ref |-> identity, val |-> value]
    subs,      \* one entry per subscribe call: the wrapper's closure (form, sel,
               \* beh, prev, prevSlice) and its history (calls: invocations of
               \* the listener, commits: assignments of the state cell while
               \* registered, seen: the next argument of the listener's last
               \* invocation, before the first one what the wrapper was
               \* seeded with)
    order,     \* the emitter's Set for 'state', in insertion order
    onceWrappers,  \* the emitter's Map for 'state': listener -> one-shot wrapper
    promises,  \* the promises setValue updaters returned, settled or in flight
    made,      \* how many objects have come to the store after _initialState
               \* (object 0): they are numbered 1..made as they are made
    trace,     \* what the last handler did, in order
    ops        \* handlers run so far

vars == <<kind, mws, initial, state, subs, order, onceWrappers, promises, made, trace, ops>>

\* ------------------------------------------------------- values, patches
EmptyPatch == [f \in {} |-> 0]

\* the record patches callers pass: {} and {f: v}
RecPatches == {EmptyPatch} \cup {[f \in {g} |-> v] : g \in Fields, v \in Vals}

RECURSIVE SeqsUpTo(_)
SeqsUpTo(n) == IF n = 0 THEN {<<>>}
               ELSE LET S == SeqsUpTo(n - 1)
                    IN  S \cup {Append(s, x) : s \in {t \in S : Len(t) = n - 1}, x \in 0..1}

SeqVals == SeqsUpTo(MaxLen)

\* a primitive (a number) where a state or a patch is expected: a value with
\* no own enumerable property
Prim(p) == [f \in {"#prim"} |-> p]
IsPrim(v) == kind = "prim" /\ "#prim" \in DOMAIN v

\* {...v}: the own enumerable properties of v, none for a primitive
Spread(v) == IF IsPrim(v) THEN EmptyPatch ELSE v

\* {...s, ...p}
Merge(s, p) == [f \in (DOMAIN Spread(s)) \cup (DOMAIN Spread(p)) |->
                   IF f \in DOMAIN Spread(p) THEN p[f] ELSE s[f]]

\* a field can hold a nested object (a record or an array).  Its content is
\* never written here, so it is known by its identity alone: Nested(0) is the
\* object the initial state holds, Nested(k) the k-th copy made of it.
Nested(k) == 0 - 2 - k
IsNested(x) == x <= Nested(0)

\* shallow(a, b) on two state values of the store's type: same keys and
\* identical (Object.is) value under every key; elements are primitives here
ShallowVal(a, b) == a = b

\* areEqual on two held objects: Object.is first, then the one-level compare
AreEqual(x, y) == x.ref = y.ref \/ ShallowVal(x.val, y.val)

\* areEqual on two slices (primitives): Object.is
SliceEqual(x, y) == x = y

\* the selectors callers use: s => s[sel] on a record (undefined for an
\* absent field), s => s.length on an array
Select(sel, v) == IF kind = "seq" THEN Len(v)
                  ELSE IF sel \in DOMAIN v THEN v[sel] ELSE Undef


\* ------------------------------------------------------ callers' inputs
\* middlewares a caller can put in the list: "pass" logs and forwards the
\* patch, "drop" never calls next, "clamp" forwards a transformed patch
MwLists == {<<>>, <<"pass">>, <<"drop">>, <<"clamp", "pass">>,
            <<"pass", "clamp">>, <<"pass", "drop">>}

Min(x, y) == IF x < y THEN x ELSE y

\* the transformation of the "clamp" middleware
Clamp(p) == IF kind = "seq" THEN SubSeq(p, 1, Min(Len(p), 1))
            ELSE [f \in DOMAIN p |-> Min(p[f], 1)]

\* listeners a caller can attach: "ok" returns, "throw" throws, "write"
\* calls setValue(ListenerPatch) from inside the callback
ListenerPatch == IF kind = "seq" THEN <<1>> ELSE [f \in {"b"} |-> MaxVal]
Selectors == {"a"}

\* updater functions a caller can pass to setValue: s => ({f: s.f + d}) on a
\* record, s => [...s, x] on an array, one that throws (or whose promise
\* rejects), one that returns (or resolves to) a non-object
AddDeltas == {[f \in {g} |-> d] : g \in Fields, d \in 1..MaxVal}
Updaters == IF kind = "seq"
            THEN {[tag |-> "app", d |-> <<x>>] : x \in 0..1}
                   \cup {[tag |-> "throw", d |-> <<>>], [tag |-> "prim", d |-> <<>>]}
            ELSE {[tag |-> "add", d |-> d] : d \in AddDeltas}
                   \cup {[tag |-> "add2", d |-> [f \in Fields |-> 1]]}
                   \cup {[tag |-> "throw", d |-> EmptyPatch], [tag |-> "prim", d |-> EmptyPatch]}

\* the updater can run on value v without leaving the modelled values
CanRun(u, v) ==
    CASE u.tag \in {"add", "add2"} -> \A f \in DOMAIN u.d : f \in DOMAIN v /\ v[f] \in Vals /\ v[f] + u.d[f] <= MaxVal
      [] u.tag = "app" -> Len(v) < MaxLen
      [] OTHER -> TRUE

\* patch(state): what the updater returns, [tag |-> "obj", v |-> the patch],
\* [tag |-> "prim"] for a non-object, [tag |-> "throw"] when it throws
RunUpdater(u, v) ==
    CASE u.tag \in {"add", "add2"} -> [tag |-> "obj", v |-> [f \in DOMAIN u.d |-> v[f] + u.d[f]]]
      [] u.tag = "app" -> [tag |-> "obj", v |-> v \o u.d]
      [] OTHER -> [tag |-> u.tag, v |-> u.d]

DirectPatches == IF kind = "seq" THEN SeqVals ELSE RecPatches

\* mutators a caller can pass to setImmer: draft.f = v (v a value or
\* undefined), delete draft.f,
\* draft.push(x), draft.pop(), and one that throws after it has mutated
\* (draft.f = v or draft.push(v), then throw)
Mutators == IF kind = "seq"
            THEN {[tag |-> "push", f |-> "", v |-> x] : x \in 0..1}
                   \cup {[tag |-> "pop", f |-> "", v |-> 0], [tag |-> "throw", f |-> "", v |-> 1]}
            ELSE {[tag |-> "set", f |-> g, v |-> x] : g \in Fields, x \in Vals \cup {Undef}}
                   \cup {[tag |-> "del", f |-> g, v |-> 0] : g \in Fields}
                   \cup {[tag |-> "throw", f |-> "a", v |-> 1]}

CanMutate(m, v) == m.tag = "push" => Len(v) < MaxLen

\* produce(state, updater): the draft engine's next state; it leaves its
\* input untouched and returns it when the mutator changed nothing
Produce(v, m) ==
    CASE m.tag = "set" -> [f \in (DOMAIN v) \cup {m.f} |-> IF f = m.f THEN m.v ELSE v[f]]
      [] m.tag = "del" -> [f \in (DOMAIN v) \ {m.f} |-> v[f]]
      [] m.tag = "push" -> Append(v, m.v)
      [] m.tag = "pop" -> SubSeq(v, 1, Len(v) - 1)
      [] OTHER -> v

\* ------------------------------------------------- the synchronous core
\* A world is the mutable part of the store while a handler runs.  given is
\* the array on its way to the state cell when it is one that exists already
\* (its number), Undef when it is an object made for the write.
World == [state |-> state, subs |-> subs, trace |-> <<>>, made |-> made, given |-> Undef]

Log(W, e) == [W EXCEPT !.trace = Append(@, e)]

\* the identity of a newly created object: objects are numbered as they are
\* made, so no two objects have one number
NewRef(W) == W.made + 1

\* cloneObject(data): a deep copy.  A primitive is returned as it is; the
\* copy of a record holds a copy of every nested object (the records here have
\* at most one nested field).  The copy of the nested object is numbered like
\* the record created with it, so it is no object created before.
cloneObject(W, v) ==
    IF kind # "rec" THEN v
    ELSE [f \in DOMAIN v |-> IF IsNested(v[f]) THEN Nested(NewRef(W)) ELSE v[f]]

RECURSIVE Counted(_, _)
Counted(ss, k) ==
    IF k > Len(order) THEN ss
    ELSE Counted([ss EXCEPT ![order[k]].commits = @ + 1], k + 1)

\* state = v.  On a record store v is an object made for the assignment; on an
\* array store it is the array that was handed over: a new one, or (given) one
\* that exists already, which the cell, _initialState or a wrapper may hold.
\* Every registered subscription counts the assignment in its history field
\* commits.
Assign(W, v, via) ==
    LET old == kind = "seq" /\ W.given # Undef
        box == [ref |-> IF old THEN W.given ELSE NewRef(W), val |-> v]
    IN  Log([W EXCEPT !.state = box, !.subs = Counted(W.subs, 1),
                      !.made = IF old THEN @ ELSE @ + 1,
                      !.given = Undef],
            [t |-> "commit", via |-> via, prev |-> W.state, next |-> box])

\* the array handed to setValue, when it is one that exists already
Given(res) == IF kind = "seq" /\ "given" \in DOMAIN res THEN res.given ELSE Undef

RECURSIVE Emit(_, _, _), Wrapped(_, _, _), BaseSet(_, _), SetFn(_, _, _)

\* the body of apply for an object result, not forced: setFn(res)
\* the listener of kind "write": store.setValue(ListenerPatch)
ListenerBody(W, beh) ==
    IF beh = "write" THEN SetFn([W EXCEPT !.given = Undef], 1, ListenerPatch) ELSE W

\* a wrapper that calls its listener on every emission, equal state or not
WrappedUnfiltered(W, id, next) ==
    LET s == W.subs[id]
        slice == Select(s.sel, next.val)
        W1 == Log([W EXCEPT !.subs[id].calls = @ + 1,
                            !.subs[id].seen = IF s.form = "sel" THEN slice ELSE next],
                  [t |-> "call", id |-> id, form |-> s.form,
                   prev |-> IF s.form = "sel" THEN s.prevSlice ELSE s.prev,
                   next |-> IF s.form = "sel" THEN slice ELSE next])
    IN  IF s.beh = "throw" THEN Log(W1, [t |-> "warn", src |-> "listener"])
        ELSE IF s.form = "sel" THEN [ListenerBody(W1, s.beh) EXCEPT !.subs[id].prevSlice = slice]
        ELSE [ListenerBody(W1, s.beh) EXCEPT !.subs[id].prev = next]

\* the wrapper subscribe registered for subscription id, called with next
Wrapped(W, id, next) ==
    LET s == W.subs[id]
    IN  IF s.form = "sel"
        THEN LET slice == Select(s.sel, next.val)
             IN  IF SliceEqual(slice, s.prevSlice) THEN W
                 ELSE LET W1 == Log([W EXCEPT !.subs[id].calls = @ + 1,
                                              !.subs[id].seen = slice],
                                    [t |-> "call", id |-> id, form |-> "sel",
                                     prev |-> s.prevSlice, next |-> slice])
                      IN  IF s.beh = "throw"
                          THEN Log(W1, [t |-> "warn", src |-> "listener"])
                          ELSE [ListenerBody(W1, s.beh) EXCEPT !.subs[id].prevSlice = slice]
        ELSE IF AreEqual(next, s.prev) THEN W
             ELSE LET W1 == Log([W EXCEPT !.subs[id].calls = @ + 1,
                                          !.subs[id].seen = next],
                                [t |-> "call", id |-> id, form |-> "whole",
                                 prev |-> s.prev, next |-> next])
                  IN  IF s.beh = "throw"
                      THEN Log(W1, [t |-> "warn", src |-> "listener"])
                      ELSE [ListenerBody(W1, s.beh) EXCEPT !.subs[id].prev = next]

\* the last thing that happened in W is a listener's exception
Threw(W) == /\ W.trace # <<>>
            /\ W.trace[Len(W.trace)].t = "warn"
            /\ W.trace[Len(W.trace)].src = "listener"

\* emit without the try around each listener: the first exception ends the
\* dispatch and reaches the caller of the write
EmitAborts(W, payload, i) ==
    IF i > Len(order) THEN W
    ELSE LET W1 == Wrapped(Log(W, [t |-> "deliver", id |-> order[i]]), order[i], payload)
         IN  IF Threw(W1) THEN Log(W1, [t |-> "warn", src |-> "patch"])
             ELSE Emit(W1, payload, i + 1)

\* emitter.emit('state', payload), from the i-th registered listener on:
\* each registered function is called with the payload ("deliver"), what it
\* throws is caught and logged
Emit(W, payload, i) ==
    IF i > Len(order) THEN W
    ELSE Emit(Wrapped(Log(W, [t |-> "deliver", id |-> order[i]]), order[i], payload),
              payload, i + 1)

emitState(W) == Emit(Log(W, [t |-> "emit", payload |-> W.state]), W.state, 1)

\* baseSet without its equality gate
BaseSetNoGate(W, delta) ==
    LET nextVal == IF kind = "seq" THEN delta ELSE Merge(W.state.val, delta)
        W1 == Log(W, [t |-> "base", patch |-> delta, cur |-> W.state])
    IN  emitState(Assign(W1, nextVal, "baseSet"))

\* baseSet replacing the record by the patch, as it does for arrays
BaseSetReplace(W, delta) ==
    LET W1 == Log(W, [t |-> "base", patch |-> delta, cur |-> W.state])
    IN  IF ~ShallowVal(W1.state.val, delta)
        THEN emitState(Assign(W1, delta, "baseSet"))
        ELSE W1

\* baseSet appending the patch to an array instead of replacing it
BaseSetAppend(W, delta) ==
    LET nextVal == IF kind = "seq" THEN W.state.val \o delta ELSE Merge(W.state.val, delta)
        W1 == Log(W, [t |-> "base", patch |-> delta, cur |-> W.state])
    IN  IF ~ShallowVal(W1.state.val, nextVal)
        THEN emitState(Assign(W1, nextVal, "baseSet"))
        ELSE W1

\* the terminal committer
BaseSet(W, delta) ==
    LET nextVal == IF kind = "seq" THEN delta ELSE Merge(W.state.val, delta)
        W1 == Log(W, [t |-> "base", patch |-> delta, cur |-> W.state])
    IN  IF ~ShallowVal(W1.state.val, nextVal)
        THEN emitState(Assign(W1, nextVal, "baseSet"))
        ELSE W1

\* setFn built with reduce instead of reduceRight: the last middleware of the
\* list is entered first
SetFnReversed(W, i, patch) ==
    IF i > Len(mws) THEN BaseSet(W, patch)
    ELSE LET m  == Len(mws) + 1 - i
             W1 == Log(W, [t |-> "mw", i |-> m, patch |-> patch, got |-> W.state])
         IN  CASE mws[m] = "drop" -> W1
               [] mws[m] = "pass" ->
                    LET W2 == SetFn(W1, i + 1, patch)
                    IN  Log(W2, [t |-> "mwret", i |-> m, got |-> W2.state])
               [] mws[m] = "clamp" ->
                    LET W2 == SetFn(W1, i + 1, Clamp(patch))
                    IN  Log(W2, [t |-> "mwret", i |-> m, got |-> W2.state])

\* setFn in which the "drop" middleware calls next after all
SetFnDropForwards(W, i, patch) ==
    IF i > Len(mws) THEN BaseSet(W, patch)
    ELSE LET W1 == Log(W, [t |-> "mw", i |-> i, patch |-> patch, got |-> W.state])
         IN  CASE mws[i] = "clamp" ->
                    LET W2 == SetFn(W1, i + 1, Clamp(patch))
                    IN  Log(W2, [t |-> "mwret", i |-> i, got |-> W2.state])
               [] OTHER ->
                    LET W2 == SetFn(W1, i + 1, patch)
                    IN  Log(W2, [t |-> "mwret", i |-> i, got |-> W2.state])

\* setFn whose middlewares read the state captured when the pipeline was built
SetFnStaleGet(W, i, patch) ==
    IF i > Len(mws) THEN BaseSet(W, patch)
    ELSE LET W1 == Log(W, [t |-> "mw", i |-> i, patch |-> patch, got |-> initial])
         IN  CASE mws[i] = "drop" -> W1
               [] mws[i] = "pass" ->
                    LET W2 == SetFn(W1, i + 1, patch)
                    IN  Log(W2, [t |-> "mwret", i |-> i, got |-> initial])
               [] mws[i] = "clamp" ->
                    LET W2 == SetFn(W1, i + 1, Clamp(patch))
                    IN  Log(W2, [t |-> "mwret", i |-> i, got |-> initial])

\* setFn in which the terminal committer gets the caller's patch, whatever
\* the middlewares forwarded
SetFnForwardsOriginal(W, i, patch) ==
    IF i > Len(mws) THEN BaseSet(W, patch)
    ELSE LET W1 == Log(W, [t |-> "mw", i |-> i, patch |-> patch, got |-> W.state])
         IN  CASE mws[i] = "drop" -> W1
               [] OTHER ->
                    LET W2 == SetFn(W1, i + 1, patch)
                    IN  Log(W2, [t |-> "mwret", i |-> i, got |-> W2.state])

\* setFn: the middleware chain from middleware i on, around baseSet
SetFn(W, i, patch) ==
    IF i > Len(mws) THEN BaseSet(W, patch)
    ELSE LET W1 == Log(W, [t |-> "mw", i |-> i, patch |-> patch, got |-> W.state])
         IN  CASE mws[i] = "drop" -> W1
               [] mws[i] = "pass" ->
                    LET W2 == SetFn(W1, i + 1, patch)
                    IN  Log(W2, [t |-> "mwret", i |-> i, got |-> W2.state])
               [] mws[i] = "clamp" ->
                    LET W2 == SetFn([W1 EXCEPT !.given = Undef], i + 1, Clamp(patch))
                    IN  Log(W2, [t |-> "mwret", i |-> i, got |-> W2.state])

\* apply without the forced branch
ApplyUnforced(W, res, forced) ==
    IF res.tag # "obj" THEN W ELSE SetFn(W, 1, res.v)

\* apply without its first line: a non-object result is spread like a patch
ApplyNoTypeCheck(W, res, forced) ==
    LET v == IF res.tag = "obj" THEN res.v
             ELSE IF kind = "seq" THEN W.state.val ELSE EmptyPatch
    IN  IF forced
        THEN emitState(Assign(W, IF kind = "seq" THEN v ELSE Merge(W.state.val, v),
                              "forced"))
        ELSE SetFn(W, 1, v)

\* apply(res) of setValue.  Forced, an array store is assigned res itself, a
\* record store a new object; not forced, res goes down the pipeline.
Apply(W, res, forced) ==
    IF res.tag # "obj" THEN W
    ELSE LET W1 == [W EXCEPT !.given = Given(res)]
         IN  IF forced
             THEN emitState(Assign(W1, IF kind = "seq" THEN res.v
                                       ELSE Merge(W.state.val, res.v), "forced"))
             ELSE SetFn(W1, 1, res.v)

\* the handler is over: its world becomes the store
Install(W) ==
    /\ state' = W.state
    /\ subs' = W.subs
    /\ trace' = W.trace
    /\ made' = W.made
    /\ ops' = ops + 1

\* -------------------------------------------------------------- actions
\* Each action is one handler run to completion.  Its parameters are the
\* inputs the callers of a specification use.

\* the first entry of a handler's trace: the call and the state it found
Op(name, forced, res) ==
    Log(World, [t |-> "op", name |-> name, forced |-> forced, res |-> res, before |-> state])

NoRes == [tag |-> "none", v |-> <<>>]

\* the store's references to object r: the state cell, _initialState, the
\* prev of a whole-state wrapper
Holders(r) ==
    {b \in {state, initial} \cup {subs[i].prev : i \in {k \in 1..Len(subs) : subs[k].form = "whole"}} :
        b.ref = r}

\* setValue(patch, {forced}) with a direct value: an object the caller made
\* for the call or, on an array store, an array that exists already (g): one
\* the caller got from getValue() or getInitialValue(), now or earlier, or
\* as a listener's argument.  An array the store still holds has the elements
\* it has there; one it holds no more is the caller's alone, with whatever
\* elements the caller has given it since.
SetValueDirect(Forced) ==
    /\ ops < MaxOps
    /\ \E p \in DirectPatches, forced \in Forced, g \in {Undef} \cup (0..made) :
          /\ g # Undef => kind = "seq" /\ \A b \in Holders(g) : b.val = p
          /\ LET res == [tag |-> "obj", v |-> p, given |-> g]
              IN  Install(Apply(Op("setValue", forced, res), res, forced))
    /\ UNCHANGED <<onceWrappers, kind, mws, initial, order, promises>>

\* setValue(patch, {forced}) with a value that is not an object: null,
\* undefined, a number, a string, a boolean
SetValueNonObject(Forced) ==
    /\ ops < MaxOps
    /\ \E forced \in Forced :
          LET res == [tag |-> "prim", v |-> EmptyPatch]
          IN  Install(Apply(Op("setValue", forced, res), res, forced))
    /\ UNCHANGED <<onceWrappers, kind, mws, initial, order, promises>>

\* setValue(fn) emitting in a finally block, so also after fn threw
SetValueSyncEmits(Tags, Forced) ==
    /\ ops < MaxOps
    /\ \E u \in Updaters, forced \in Forced :
          /\ u.tag \in Tags
          /\ CanRun(u, state.val)
          /\ LET res == RunUpdater(u, state.val)
                 W0  == Op("setValueFn", forced, res)
             IN  Install(IF res.tag = "throw"
                         THEN emitState(Log(W0, [t |-> "warn", src |-> "patch"]))
                         ELSE Apply(W0, res, forced))
    /\ UNCHANGED <<onceWrappers, kind, mws, initial, order, promises>>

\* setValue(fn, {forced}), fn returning synchronously or throwing
SetValueSync(Tags, Forced) ==
    /\ ops < MaxOps
    /\ \E u \in Updaters, forced \in Forced :
          /\ u.tag \in Tags
          /\ CanRun(u, state.val)
          /\ LET res == RunUpdater(u, state.val)
                 W0  == Op("setValueFn", forced, res)
             IN  Install(IF res.tag = "throw"
                         THEN Log(W0, [t |-> "warn", src |-> "patch"])
                         ELSE Apply(W0, res, forced))
    /\ UNCHANGED <<onceWrappers, kind, mws, initial, order, promises>>

\* setValue(fn) applying the promise's eventual value at once, not deferring it
SetValueAsyncEager(Tags, Forced) ==
    /\ ops < MaxOps
    /\ Len(promises) < MaxPending
    /\ \E u \in Updaters, forced \in Forced :
          /\ u.tag \in Tags
          /\ CanRun(u, state.val)
          /\ promises' = Append(promises, [fn |-> u, res |-> RunUpdater(u, state.val),
                                           forced |-> forced, seen |-> state.val,
                                           issuedAt |-> ops + 1, settledAt |-> 0])
          /\ Install(Apply(Op("setValueAsync", forced, NoRes), RunUpdater(u, state.val), forced))
    /\ UNCHANGED <<onceWrappers, kind, mws, initial, order>>

\* setValue(fn, {forced}), fn returning a promise: then/catch are attached.
\* fn has run on the state of this moment; seen and issuedAt remember when.
SetValueAsync(Tags, Forced) ==
    /\ ops < MaxOps
    /\ Len(promises) < MaxPending
    /\ \E u \in Updaters, forced \in Forced :
          /\ u.tag \in Tags
          /\ CanRun(u, state.val)
          /\ promises' = Append(promises, [fn |-> u, res |-> RunUpdater(u, state.val),
                                           forced |-> forced, seen |-> state.val,
                                           issuedAt |-> ops + 1, settledAt |-> 0])
          /\ Install(Op("setValueAsync", forced, NoRes))
    /\ UNCHANGED <<onceWrappers, kind, mws, initial, order>>

\* a promise in flight settles: .then(apply) or .catch(warn)
Settle ==
    /\ ops < MaxOps
    /\ \E i \in 1..Len(promises) :
          /\ promises[i].settledAt = 0
          /\ LET pr == promises[i]
                 W0 == Op("settle", pr.forced, pr.res)
             IN  /\ promises' = [promises EXCEPT ![i].settledAt = ops + 1]
                 /\ Install(IF pr.res.tag = "throw"
                            THEN Log(W0, [t |-> "warn", src |-> "async"])
                            ELSE Apply(W0, pr.res, pr.forced))
    /\ UNCHANGED <<onceWrappers, kind, mws, initial, order>>

\* the delta as the whole next state, removed fields marked
ImmerDeltaFull(cur, nxt) ==
    [k \in (DOMAIN nxt) \cup (DOMAIN cur) |->
        IF k \in DOMAIN nxt THEN nxt[k] ELSE Undef]

\* state[k] as setImmer reads it: undefined for a field the state lacks
FieldOf(v, k) == IF k \in DOMAIN v THEN v[k] ELSE Undef

\* the delta setImmer derives from the draft engine's next state
ImmerDelta(cur, nxt) ==
    [k \in {f \in DOMAIN nxt : nxt[f] # FieldOf(cur, f)}
            \cup ((DOMAIN cur) \ (DOMAIN nxt)) |->
        IF k \in DOMAIN nxt THEN nxt[k] ELSE Undef]

\* setImmer committing what the mutator did before it threw
SetImmerPartial(Tags) ==
    /\ ops < MaxOps
    /\ \E m \in Mutators :
          /\ m.tag \in Tags
          /\ CanMutate(m, state.val)
          /\ LET W0  == Op("setImmer", FALSE, [tag |-> "mut", v |-> m])
                 nxt == Produce(state.val, m)
                 done == IF kind = "seq" THEN <<m.v>> ELSE [f \in {m.f} |-> m.v]
             IN  Install(IF m.tag = "throw"
                         THEN SetFn(Log(W0, [t |-> "warn", src |-> "immer"]), 1, done)
                         ELSE IF ShallowVal(state.val, nxt) THEN W0
                         ELSE IF kind = "seq" THEN SetFn(W0, 1, nxt)
                         ELSE IF DOMAIN ImmerDelta(state.val, nxt) # {}
                              THEN SetFn(W0, 1, ImmerDelta(state.val, nxt))
                              ELSE W0)
    /\ UNCHANGED <<onceWrappers, kind, mws, initial, order, promises>>

\* setImmer without the early return on an equal next state
SetImmerUngated(Tags) ==
    /\ ops < MaxOps
    /\ \E m \in Mutators :
          /\ m.tag \in Tags
          /\ CanMutate(m, state.val)
          /\ LET W0  == Op("setImmer", FALSE, [tag |-> "mut", v |-> m])
                 nxt == Produce(state.val, m)
             IN  Install(IF m.tag = "throw" THEN Log(W0, [t |-> "warn", src |-> "immer"])
                         ELSE IF kind = "seq" THEN SetFn(W0, 1, nxt)
                         ELSE IF DOMAIN ImmerDelta(state.val, nxt) # {}
                              THEN SetFn(W0, 1, ImmerDelta(state.val, nxt))
                              ELSE W0)
    /\ UNCHANGED <<onceWrappers, kind, mws, initial, order, promises>>

\* setImmer(updater)
SetImmer(Tags) ==
    /\ ops < MaxOps
    /\ \E m \in Mutators :
          /\ m.tag \in Tags
          /\ CanMutate(m, state.val)
          /\ LET W0  == Op("setImmer", FALSE, [tag |-> "mut", v |-> m])
                 nxt == Produce(state.val, m)
             IN  Install(IF m.tag = "throw" THEN Log(W0, [t |-> "warn", src |-> "immer"])
                         ELSE IF ShallowVal(state.val, nxt) THEN W0
                         ELSE IF kind = "seq" THEN SetFn(W0, 1, nxt)
                         ELSE IF DOMAIN ImmerDelta(state.val, nxt) # {}
                              THEN SetFn(W0, 1, ImmerDelta(state.val, nxt))
                              ELSE W0)
    /\ UNCHANGED <<onceWrappers, kind, mws, initial, order, promises>>

\* reset() going through the gated commit path, as reset(value) does
ResetGated ==
    /\ ops < MaxOps
    /\ LET W0   == Op("reset", FALSE, NoRes)
           next == cloneObject(W0, initial.val)
       IN  Install(IF ~ShallowVal(state.val, next) THEN SetFn(W0, 1, next) ELSE W0)
    /\ UNCHANGED <<onceWrappers, kind, mws, initial, order, promises>>

\* reset(): back to a clone of _initialState, emitted unconditionally
Reset ==
    /\ ops < MaxOps
    /\ LET W0 == Op("reset", FALSE, NoRes)
       IN  Install(emitState(Assign(W0, cloneObject(W0, initial.val), "reset")))
    /\ UNCHANGED <<onceWrappers, kind, mws, initial, order, promises>>

\* reset(value) assigning the override to _initialState itself, not to a clone
ResetToShared ==
    /\ ops < MaxOps
    /\ kind # "prim"
    /\ \E p \in DirectPatches :
          LET W0   == Op("resetTo", FALSE, [tag |-> "obj", v |-> p])
              next == IF kind = "seq" THEN p ELSE Merge(initial.val, p)
          IN  /\ Install(IF ~ShallowVal(state.val, next) THEN SetFn(W0, 1, next) ELSE W0)
              /\ initial' = [initial EXCEPT !.val = next]
    /\ UNCHANGED <<onceWrappers, kind, mws, order, promises>>

\* reset(value), value an array on an array store, a record on a record store
ResetTo ==
    /\ ops < MaxOps
    /\ kind # "prim"
    /\ \E p \in DirectPatches :
          LET W0   == Op("resetTo", FALSE, [tag |-> "obj", v |-> p])
              next == IF kind = "seq" THEN p ELSE Merge(cloneObject(W0, initial.val), p)
          IN  Install(IF ~ShallowVal(state.val, next) THEN SetFn(W0, 1, next) ELSE W0)
    /\ UNCHANGED <<onceWrappers, kind, mws, initial, order, promises>>

\* reset(p), p a primitive, on a store created with a primitive
ResetPrim ==
    /\ ops < MaxOps
    /\ kind = "prim"
    /\ \E p \in Vals :
          LET W0 == Op("resetPrim", FALSE, [tag |-> "prim", v |-> Prim(p)])
          IN  Install(IF state.val # Prim(p) THEN SetFn(W0, 1, Prim(p)) ELSE W0)
    /\ UNCHANGED <<onceWrappers, kind, mws, initial, order, promises>>

\* isDirty() comparing the two references only
isDirtyByIdentity == state.ref # initial.ref

\* isDirty()
isDirty == ~AreEqual(state, initial)

\* getValue(): the live state object
GetValue ==
    /\ ops < MaxOps
    /\ trace' = Log(Op("getValue", FALSE, NoRes), [t |-> "ret", value |-> state]).trace
    /\ ops' = ops + 1
    /\ UNCHANGED <<made, onceWrappers, kind, mws, initial, state, subs, order, promises>>

\* what getInitialValue() returns: a one-level copy of a record or an array
\* (a new object holding the same nested objects), a primitive as it is
getInitialValue ==
    IF kind = "prim" THEN initial ELSE [ref |-> NewRef(World), val |-> initial.val]

\* getInitialValue()
GetInitialValue ==
    /\ ops < MaxOps
    /\ trace' = Log(Op("getInitialValue", FALSE, NoRes),
                    [t |-> "ret", value |-> getInitialValue]).trace
    /\ made' = IF kind = "prim" THEN made ELSE made + 1
    /\ ops' = ops + 1
    /\ UNCHANGED <<onceWrappers, kind, mws, initial, state, subs, order, promises>>

\* subscribe that registers the whole-state wrapper only
SubscribeWholeOnly(Forms, Kinds) ==
    /\ ops < MaxOps
    /\ Len(subs) < MaxSubs
    /\ \E form \in Forms, sel \in Selectors, beh \in Kinds :
          /\ subs' = Append(subs, [form |-> form, sel |-> sel, beh |-> beh,
                                   prev |-> state,
                                   prevSlice |-> IF form = "sel" THEN Select(sel, state.val) ELSE Undef,
                                   calls |-> 0, commits |-> 0,
                                   seen |-> IF form = "sel" THEN Select(sel, state.val)
                                            ELSE state])
          /\ order' = IF form = "sel" THEN order ELSE Append(order, Len(subs) + 1)
    /\ trace' = Op("subscribe", FALSE, NoRes).trace
    /\ ops' = ops + 1
    /\ UNCHANGED <<made, onceWrappers, kind, mws, initial, state, promises>>

\* subscribe(listener) and subscribe(selector, listener)
Subscribe(Forms, Kinds) ==
    /\ ops < MaxOps
    /\ Len(subs) < MaxSubs
    /\ \E form \in Forms, sel \in Selectors, beh \in Kinds :
          /\ subs' = Append(subs, [form |-> form, sel |-> sel, beh |-> beh,
                                   prev |-> state,
                                   prevSlice |-> IF form = "sel" THEN Select(sel, state.val) ELSE Undef,
                                   calls |-> 0, commits |-> 0,
                                   seen |-> IF form = "sel" THEN Select(sel, state.val)
                                            ELSE state])
          /\ order' = Append(order, Len(subs) + 1)
    /\ trace' = Op("subscribe", FALSE, NoRes).trace
    /\ ops' = ops + 1
    /\ UNCHANGED <<made, onceWrappers, kind, mws, initial, state, promises>>

\* unsubscribing by listener function: every subscription made with the same
\* listener (and selector) goes
UnsubscribeByListener ==
    /\ ops < MaxOps
    /\ \E id \in 1..Len(subs) :
          /\ order' = SelectSeq(order, LAMBDA x :
                          <<subs[x].form, subs[x].sel, subs[x].beh>>
                             # <<subs[id].form, subs[id].sel, subs[id].beh>>)
          /\ trace' = Op("unsubscribe", FALSE, [tag |-> "id", v |-> id]).trace
    /\ ops' = ops + 1
    /\ UNCHANGED <<made, onceWrappers, kind, mws, initial, state, subs, promises>>

\* the function subscribe returned: emitter.off('state', wrapped)
Unsubscribe ==
    /\ ops < MaxOps
    /\ \E id \in 1..Len(subs) :
          /\ order' = SelectSeq(order, LAMBDA x : x # id)
          /\ trace' = Op("unsubscribe", FALSE, [tag |-> "id", v |-> id]).trace
    /\ ops' = ops + 1
    /\ UNCHANGED <<made, onceWrappers, kind, mws, initial, state, subs, promises>>

\* ------------------------------------------------- the emitter on its own
\* EventEmitter used directly, for one event.  order is then the Set of the
\* functions registered for it: a listener itself, [fn |-> l, w |-> 0], or
\* the w-th one-shot wrapper once created, around listener l.
\* Listener "l1" returns; "l2" emits the event again from inside, the first
\* time it runs in an emission.
BusListeners == {"l1", "l2"}

Bus == [order |-> order, onceWrappers |-> onceWrappers, trace |-> <<>>]

Plain(l) == [fn |-> l, w |-> 0]

\* Map.delete(l)
MapDelete(m, l) == [x \in (DOMAIN m) \ {l} |-> m[x]]

\* Map.set(l, f)
MapSet(m, l, f) == [x \in (DOMAIN m) \cup {l} |-> IF x = l THEN f ELSE m[x]]

\* Set.delete(f)
SetDelete(q, f) == SelectSeq(q, LAMBDA x : x # f)

\* on(event, listener): Set.add
on(B, f) ==
    IF \E k \in 1..Len(B.order) : B.order[k] = f THEN B
    ELSE [B EXCEPT !.order = Append(@, f)]

\* off(event, listener).  Without a Set for the event nothing happens; the
\* Map is looked up with the function given, and holds listeners only.
off(B, f) ==
    IF B.order = <<>> THEN B
    ELSE IF f.w = 0 /\ f.fn \in DOMAIN B.onceWrappers
         THEN [B EXCEPT !.order = SetDelete(@, B.onceWrappers[f.fn]),
                        !.onceWrappers = MapDelete(@, f.fn)]
         ELSE [B EXCEPT !.order = SetDelete(@, f)]

\* once(event, listener), w the identity of the wrapper it creates
once(B, l, w) ==
    on([B EXCEPT !.onceWrappers = MapSet(@, l, [fn |-> l, w |-> w])], [fn |-> l, w |-> w])

RECURSIVE emit(_, _), EmitFrom(_, _, _), CallListener(_, _, _)

\* listener(payload)
CallListener(B, f, depth) ==
    LET B1 == [B EXCEPT !.trace = Append(@, [t |-> "call", fn |-> f.fn, w |-> f.w])]
    IN  IF f.fn = "l2" /\ depth = 0 THEN emit(B1, depth + 1) ELSE B1

\* the for-of loop of emit over the live Set: the next function is the first
\* one in the Set that has not been visited
EmitFrom(B, visited, depth) ==
    LET rest == SelectSeq(B.order, LAMBDA x : x \notin visited)
    IN  IF rest = <<>> THEN B
        ELSE LET f  == rest[1]
                 B1 == IF f.w = 0 THEN B
                       ELSE [off(B, f) EXCEPT !.onceWrappers = MapDelete(@, f.fn)]
             IN  EmitFrom(CallListener(B1, f, depth), visited \cup {f}, depth)

\* emit(event, payload)
emit(B, depth) == EmitFrom(B, {}, depth)

\* the call is over: the emitter keeps what the call left
InstallBus(B, name, l) ==
    /\ order' = B.order
    /\ onceWrappers' = B.onceWrappers
    /\ trace' = Op(name, FALSE, [tag |-> "fn", v |-> l]).trace \o B.trace
    /\ ops' = ops + 1
    /\ UNCHANGED <<made, kind, mws, initial, state, subs, promises>>

On == ops < MaxOps /\ \E l \in BusListeners : InstallBus(on(Bus, Plain(l)), "on", l)

Once == ops < MaxOps /\ \E l \in BusListeners : InstallBus(once(Bus, l, ops + 1), "once", l)

Off == ops < MaxOps /\ \E l \in BusListeners : InstallBus(off(Bus, Plain(l)), "off", l)

\* off(event) without a listener
OffAll ==
    /\ ops < MaxOps
    /\ InstallBus([Bus EXCEPT !.order = <<>>, !.onceWrappers = EmptyPatch], "offAll", "")

\* clear(): the listeners and one-shot wrappers of every event go; the
\* emitter here has the one event
Clear ==
    /\ ops < MaxOps
    /\ InstallBus([Bus EXCEPT !.order = <<>>, !.onceWrappers = EmptyPatch], "clear", "")

EmitEvent == ops < MaxOps /\ InstallBus(emit(Bus, 0), "emit", "")

\* getNumberOfSubscriber(event)
BusCount == Len(order)

\* getNumberOfSubscriber(): the size of the emitter's Set for 'state'
getNumberOfSubscriber == Len(order)

\* ------------------------------------------------------- specifications
\* createStore(initialState, middlewares)
InitialRec == [f \in Fields |-> 0]
InitialSeq == <<>>

Created(lists) ==
    /\ kind \in {"rec", "seq"}
    /\ mws \in lists
    /\ initial = [ref |-> 0, val |-> IF kind = "seq" THEN InitialSeq ELSE InitialRec]
    /\ state = initial
    /\ subs = <<>>
    /\ order = <<>>
    /\ onceWrappers = EmptyPatch
    /\ promises = <<>>
    /\ made = 0
    /\ trace = <<>>
    /\ ops = 0

\* Synchronous writes and subscribers of every form, no middleware.
Init == Created({<<>>})

Next ==
    \/ SetValueDirect({FALSE})
    \/ SetValueSync({"add", "app"}, {FALSE})
    \/ Subscribe({"whole", "sel"}, {"ok", "throw"})
    \/ Unsubscribe

Spec == Init /\ [][Next]_vars

\* Asynchronous writes racing with each other and with synchronous ones.
InitAsync == Created({<<>>})

NextAsync ==
    \/ SetValueDirect({FALSE})
    \/ SetValueSync({"throw", "prim"}, {FALSE})
    \/ SetValueAsync({"add", "add2", "app", "throw", "prim"}, {FALSE})
    \/ Settle
    \/ Subscribe({"whole"}, {"ok"})

SpecAsync == InitAsync /\ [][NextAsync]_vars

\* Stores built with a middleware list; forced and unforced writes.
InitMw == Created(MwLists)

NextMw ==
    \/ SetValueDirect({FALSE})
    \/ SetValueSync({"add", "app"}, {FALSE})
    \/ SetImmer({"set", "del", "push", "pop", "throw"})
    \/ ResetTo
    \/ Subscribe({"whole"}, {"ok"})

SpecMw == InitMw /\ [][NextMw]_vars

\* Forced writes of the three shapes through a store that has middleware.
InitForced == Created({<<"drop">>, <<"clamp", "pass">>})

NextForced ==
    \/ SetValueDirect({TRUE})
    \/ SetValueSync({"add", "app"}, {TRUE})
    \/ SetValueAsync({"add", "app"}, {TRUE})
    \/ Settle
    \/ Subscribe({"whole"}, {"ok"})

SpecForced == InitForced /\ [][NextForced]_vars

\* Stores of every type, reset in its three forms between direct writes.
\* A record store starts from {a, b}, from {a} (b is optional) or from
\* {a, b: a nested object}.
InitialOpt == [f \in {"a"} |-> 0]
InitialNested == [f \in Fields |-> IF f = "b" THEN Nested(0) ELSE 0]
InitialPrim == Prim(0)

InitReset ==
    /\ kind \in {"rec", "seq", "prim"}
    /\ mws \in {<<>>, <<"pass">>}
    /\ \E v \in (CASE kind = "rec" -> {InitialRec, InitialOpt, InitialNested}
                   [] kind = "seq" -> {InitialSeq}
                   [] kind = "prim" -> {InitialPrim}) :
          initial = [ref |-> 0, val |-> v]
    /\ state = initial
    /\ subs = <<>>
    /\ order = <<>>
    /\ onceWrappers = EmptyPatch
    /\ promises = <<>>
    /\ made = 0
    /\ trace = <<>>
    /\ ops = 0

NextReset ==
    \/ SetValueDirect({FALSE})
    \/ Reset
    \/ ResetTo
    \/ ResetPrim
    \/ Subscribe({"whole"}, {"ok"})

SpecReset == InitReset /\ [][NextReset]_vars

\* Subscribing and unsubscribing among writes, resets and dispatches to
\* listeners that return or write, on record and primitive stores.
InitCount ==
    /\ InitReset
    /\ mws = <<>>
    /\ initial.val \in {InitialRec, InitialPrim}

NextCount ==
    \/ SetValueDirect({FALSE})
    \/ Reset
    \/ ResetTo
    \/ ResetPrim
    \/ Subscribe({"whole", "sel"}, {"ok", "write"})
    \/ Unsubscribe

SpecCount == InitCount /\ [][NextCount]_vars

\* Every operation of a record or array store without middleware, the reads
\* included.
InitSnap == InitReset /\ kind # "prim" /\ mws = <<>>

NextSnap ==
    \/ SetValueDirect({FALSE})
    \/ SetImmer({"set", "del", "push", "pop"})
    \/ Reset
    \/ ResetTo
    \/ Subscribe({"whole"}, {"ok"})
    \/ GetValue
    \/ GetInitialValue

SpecSnap == InitSnap /\ [][NextSnap]_vars

\* Results that are not objects, in the three shapes, forced or not, on a
\* store with a middleware.
InitIgnored == Created({<<"pass">>})

NextIgnored ==
    \/ SetValueDirect({FALSE})
    \/ SetValueNonObject(BOOLEAN)
    \/ SetValueSync({"prim"}, BOOLEAN)
    \/ SetValueAsync({"prim"}, BOOLEAN)
    \/ Settle
    \/ Subscribe({"whole"}, {"ok"})

SpecIgnored == InitIgnored /\ [][NextIgnored]_vars

\* Every commit path (gated, forced, reset) under subscribers of both forms.
InitNotify == Created({<<>>}) /\ kind = "rec"

NextNotify ==
    \/ SetValueDirect(BOOLEAN)
    \/ Reset
    \/ Subscribe({"whole", "sel"}, {"ok", "throw"})

SpecNotify == InitNotify /\ [][NextNotify]_vars

\* Listeners that return, throw, or write to the store while they are being
\* notified.
InitDispatch == Created({<<>>})

NextDispatch ==
    \/ SetValueDirect({FALSE})
    \/ Subscribe({"whole", "sel"}, {"ok", "throw", "write"})
    \/ Unsubscribe

SpecDispatch == InitDispatch /\ [][NextDispatch]_vars

\* The emitter on its own: persistent and one-shot listeners of one event.
InitBus == Created({<<>>}) /\ kind = "rec"

NextBus ==
    \/ On
    \/ Once
    \/ Off
    \/ OffAll
    \/ Clear
    \/ EmitEvent

SpecBus == InitBus /\ [][NextBus]_vars

\* --------------------------------------------------------------- properties
\* what a handler's trace holds
Events(t) == {i \in DOMAIN trace : trace[i].t = t}
Attached == {order[k] : k \in 1..Len(order)}

\* the next state baseSet computes for the patch of the "base" entry i
MergedAt(i) == IF kind = "seq" THEN trace[i].patch
               ELSE Merge(trace[i].cur.val, trace[i].patch)

\* C1: a patch that reaches the terminal committer replaces the state cell
\* and is followed by an emission exactly when the merged next state is not
\* equal to the current state; when it is equal the state cell keeps its
\* reference and no listener is invoked.
C1_GatedCommit ==
    /\ \A i \in Events("base") :
          IF ~AreEqual(trace[i].cur, [ref |-> -1, val |-> MergedAt(i)])
          THEN /\ i + 2 <= Len(trace)
               /\ trace[i + 1].t = "commit"
               /\ trace[i + 1].prev = trace[i].cur
               /\ trace[i + 1].next.val = MergedAt(i)
               /\ trace[i + 1].next.ref # trace[i].cur.ref
               /\ trace[i + 2].t = "emit"
               /\ trace[i + 2].payload = trace[i + 1].next
          ELSE /\ \A j \in (i + 1)..Len(trace) : trace[j].t \notin {"commit", "emit", "call"}
               /\ state = trace[i].cur
    /\ \A i \in Events("commit") :
          trace[i].via = "baseSet" => i - 1 \in Events("base")

\* a write whose fields already hold the patch's values reached baseSet on a
\* store that has left its initial value, with a listener attached
C1_Witness ==
    /\ kind = "rec"
    /\ Attached # {}
    /\ state.val # initial.val
    /\ \E i \in Events("base") :
          /\ trace[i].patch # EmptyPatch
          /\ trace[i].cur.val = MergedAt(i)

\* C2: every accepted equality-gated commit invokes each attached whole-state
\* listener exactly once, after the commit, with prev = the state committed
\* before that write and next = the newly committed state.
C2_WholeListenersNotified ==
    \A i \in Events("commit") :
       kind = "rec" /\ trace[i].via = "baseSet" =>
          \A id \in Attached :
             subs[id].form = "whole" =>
                LET calls == {j \in Events("call") : j > i /\ trace[j].id = id}
                IN  /\ Cardinality(calls) = 1
                    /\ \A j \in calls : /\ trace[j].prev.val = trace[i].prev.val
                                        /\ trace[j].next = trace[i].next

\* C3: a selector-form listener is invoked on a commit exactly when the slice
\* of the newly committed state differs from the slice it last saw, once, with
\* (previous slice, new slice); a write that leaves the slice alone never
\* invokes it.
C3_SelectorListener ==
    \A i \in Events("commit") :
       \A id \in Attached :
          kind = "rec" /\ subs[id].form = "sel" =>
             LET calls == {j \in Events("call") : j > i /\ trace[j].id = id}
                 old   == Select(subs[id].sel, trace[i].prev.val)
                 new   == Select(subs[id].sel, trace[i].next.val)
             IN  IF SliceEqual(old, new) THEN calls = {}
                 ELSE /\ Cardinality(calls) = 1
                      /\ \A j \in calls : trace[j].prev = old /\ trace[j].next = new

\* C4: synchronous writes are committed and notified in issue order, one
\* notification per accepted write for each whole-state subscriber: after any
\* sequence of writes a registered subscriber has been invoked once per commit
\* made since it subscribed, the last of them being the write just made.
C4_OneNotificationPerWrite ==
    /\ \A id \in Attached :
          kind = "rec" /\ subs[id].form = "whole" => subs[id].calls = subs[id].commits
    /\ \A i \in Events("commit") : trace[i].prev = trace[1].before /\ trace[i].next = state

\* the promise that settled in handler number n, if any
SettledAt(n) == {i \in 1..Len(promises) : promises[i].settledAt = n}

\* C5: an asynchronous setValue changes nothing and notifies nobody when it is
\* invoked; when its promise resolves, the patch the updater computed from the
\* state of the invocation is merged into the state of the resolution.
C5_AsyncDeferred ==
    /\ trace # <<>> /\ trace[1].name = "setValueAsync" =>
          /\ Len(trace) = 1
          /\ state = trace[1].before
          /\ promises[Len(promises)].seen = state.val
          /\ promises[Len(promises)].settledAt = 0
    /\ \A i \in SettledAt(ops) :
          promises[i].res.tag = "obj" /\ ~promises[i].forced =>
             /\ promises[i].res = RunUpdater(promises[i].fn, promises[i].seen)
             /\ trace[2].t = "base"
             /\ trace[2].patch = promises[i].res.v
             /\ trace[2].cur = trace[1].before
             /\ state.val = (IF kind = "seq" THEN promises[i].res.v
                             ELSE Merge(trace[1].before.val, promises[i].res.v))

\* a promise resolved after the state it was computed from had been replaced,
\* and its patch was committed
C5_Witness ==
    /\ kind = "rec"
    /\ \E i \in SettledAt(ops) :
          /\ promises[i].res.tag = "obj"
          /\ promises[i].seen # trace[1].before.val
          /\ \A f \in DOMAIN promises[i].res.v : trace[1].before.val[f] # promises[i].seen[f]
          /\ Events("commit") # {}

\* two promises whose updaters ran on the same state, both handed over before
\* either settled, settled by the last two handlers: i first, j last
Raced(i, j) ==
    /\ i # j
    /\ promises[i].res.tag = "obj" /\ promises[j].res.tag = "obj"
    /\ promises[i].seen = promises[j].seen
    /\ promises[i].settledAt = ops - 1 /\ promises[j].settledAt = ops
    /\ promises[i].issuedAt < ops - 1 /\ promises[j].issuedAt < ops - 1

\* C6: on a record store, after two asynchronous writes that read the same
\* state have both resolved, a field only one of them wrote holds that
\* patch's value and a field both wrote holds the value of the last resolved.
C6_RecordRace ==
    \A i, j \in 1..Len(promises) :
       kind = "rec" /\ Raced(i, j) =>
          LET first == promises[i].res.v
              last  == promises[j].res.v
          IN  /\ \A f \in DOMAIN last : f \in DOMAIN state.val /\ state.val[f] = last[f]
              /\ \A f \in (DOMAIN first) \ (DOMAIN last) :
                    f \in DOMAIN state.val /\ state.val[f] = first[f]

\* the first resolved patch wrote a and b, the last one a different a
C6_Witness ==
    \E i, j \in 1..Len(promises) :
       /\ kind = "rec" /\ Raced(i, j)
       /\ DOMAIN promises[i].res.v = {"a", "b"}
       /\ DOMAIN promises[j].res.v = {"a"}
       /\ promises[i].res.v["a"] # promises[j].res.v["a"]
       /\ state.val["b"] # promises[j].seen["b"]

\* C7: on an array store, after two overlapping asynchronous writes derived
\* from the same snapshot have both resolved, the state is the sequence of the
\* last resolved write alone; what the earlier one added is lost.
C7_SequenceRace ==
    \A i, j \in 1..Len(promises) :
       kind = "seq" /\ Raced(i, j) => state.val = promises[j].res.v

\* both appended to the same snapshot; the first one's element is gone
C7_Witness ==
    \E i, j \in 1..Len(promises) :
       /\ kind = "seq" /\ Raced(i, j)
       /\ promises[i].res.v = Append(promises[i].seen, 0)
       /\ promises[j].res.v = Append(promises[j].seen, 1)
       /\ state.val = Append(promises[j].seen, 1)

\* C8: when the function given to setValue throws, or its promise rejects,
\* the handler returns with a warning and nothing else: the state cell is
\* unchanged, no middleware or commit ran, no listener was invoked; later
\* writes are accepted.
C8_UpdaterFailure ==
    trace # <<>> /\ trace[1].res.tag = "throw" =>
       /\ Len(trace) = 2
       /\ trace[2].t = "warn"
       /\ trace[2].src = (IF trace[1].name = "settle" THEN "async" ELSE "patch")
       /\ state = trace[1].before

\* a promise rejected with a listener attached, and the next write committed
C8_Witness ==
    /\ Attached # {}
    /\ \E i \in SettledAt(ops - 1) : promises[i].res.tag = "throw"
    /\ Events("commit") # {}
    /\ Events("call") # {}

\* C9: a forced setValue with an object patch, whatever its shape, enters no
\* middleware, replaces the state cell by the merged state (the patch itself
\* on an array store) and emits, also when the merged state equals the
\* current one.  The cell holds the object it held before only when the patch
\* is that very array, and an array that exists already is in the cell itself.
C9_ForcedCommit ==
    trace # <<>> /\ trace[1].forced /\ trace[1].res.tag = "obj" =>
       /\ Events("mw") = {} /\ Events("base") = {}
       /\ Len(trace) >= 3
       /\ trace[2].t = "commit" /\ trace[2].via = "forced"
       /\ trace[2].prev = trace[1].before
       /\ trace[2].next.val = (IF kind = "seq" THEN trace[1].res.v
                               ELSE Merge(trace[1].before.val, trace[1].res.v))
       /\ trace[2].next.ref = trace[1].before.ref
             <=> Given(trace[1].res) = trace[1].before.ref
       /\ Given(trace[1].res) # Undef => trace[2].next.ref = Given(trace[1].res)
       /\ trace[3].t = "emit" /\ trace[3].payload = trace[2].next
       /\ state = trace[2].next

\* a promise resolved to a forced patch that changes nothing, on a store
\* whose middleware drops every write
C9_Witness ==
    /\ mws = <<"drop">>
    /\ kind = "rec"
    /\ trace # <<>> /\ trace[1].name = "settle" /\ trace[1].forced
    /\ trace[1].res.tag = "obj"
    /\ state.val = trace[1].before.val
    /\ state.ref # trace[1].before.ref
    /\ state.val # initial.val

\* C10: a write that goes through setFn enters m1 first, m(i+1) only from
\* inside mi and in the declared order, and baseSet only from inside mn; no
\* gated commit happens without every middleware having been entered.
C10_MiddlewareOrder ==
    /\ \A j \in Events("mw") :
          IF trace[j].i = 1 THEN trace[j - 1].t = "op"
          ELSE /\ trace[j - 1].t = "mw"
               /\ trace[j - 1].i = trace[j].i - 1
               /\ mws[trace[j - 1].i] # "drop"
    /\ \A j \in Events("base") :
          IF mws = <<>> THEN trace[j - 1].t = "op"
          ELSE /\ trace[j - 1].t = "mw"
               /\ trace[j - 1].i = Len(mws)
               /\ mws[Len(mws)] # "drop"
    /\ \A c \in Events("commit") :
          trace[c].via = "baseSet" =>
             \A k \in 1..Len(mws) : \E j \in Events("mw") : j < c /\ trace[j].i = k
    /\ trace # <<>> /\ trace[1].name \in {"setValue", "setValueFn"}
         /\ trace[1].res.tag = "obj" /\ ~trace[1].forced /\ mws # <<>> =>
          /\ trace[2].t = "mw" /\ trace[2].i = 1 /\ trace[2].patch = trace[1].res.v

\* a setImmer write was committed behind two middlewares
C10_Witness ==
    /\ Len(mws) = 2
    /\ trace # <<>> /\ trace[1].name = "setImmer"
    /\ \E c \in Events("commit") : trace[c].via = "baseSet"

\* C11: when a middleware does not call next, the write ends there: no later
\* middleware is entered, the terminal committer is not reached, the state
\* cell is unchanged, no listener is invoked and no warning is logged; the
\* middlewares that had called next return.
C11_DroppedWrite ==
    \A j \in Events("mw") :
       mws[trace[j].i] = "drop" =>
          /\ \A k \in 1..(j - 1) : trace[k].t \in {"op", "mw"}
          /\ \A k \in (j + 1)..Len(trace) :
                trace[k].t = "mwret" /\ trace[k].i < trace[j].i
          /\ state = trace[1].before

\* a patch that would have changed the state was dropped by the second
\* middleware while a listener was attached
C11_Witness ==
    /\ kind = "rec"
    /\ mws = <<"pass", "drop">>
    /\ Attached # {}
    /\ \E j \in Events("mw") :
          /\ trace[j].i = 2
          /\ Merge(trace[1].before.val, trace[j].patch) # trace[1].before.val

\* the state cell after the first k entries of the handler's trace
CellAt(k) ==
    LET cs == {c \in Events("commit") : c <= k}
    IN  IF cs = {} THEN trace[1].before
        ELSE trace[CHOOSE c \in cs : \A d \in cs : d <= c].next

\* C12: getState() called by a middleware, on entry (before next) or after
\* next has returned, yields the state cell of that moment: the state found
\* by the write before the commit, the newly committed state after it.
C12_GetStateLive ==
    \A j \in Events("mw") \cup Events("mwret") :
       /\ trace[j].got = CellAt(j)
       /\ trace[j].t = "mw" /\ trace[1].name # "subscribe" =>
             trace[j].got = trace[1].before
       /\ trace[j].t = "mwret" /\ Events("commit") # {} => trace[j].got = state

\* on a store that had left its initial state, a middleware read the old
\* state before an accepted write and the new one after it
C12_Witness ==
    /\ kind = "rec"
    /\ trace # <<>>
    /\ trace[1].before.val # initial.val
    /\ state.val # initial.val
    /\ state.val # trace[1].before.val
    /\ \E j \in Events("mw"), k \in Events("mwret") :
          /\ trace[j].i = trace[k].i
          /\ trace[j].got = trace[1].before
          /\ trace[k].got = state

\* what middleware number i forwards to next when it is entered with patch p
Forwarded(i, p) == IF mws[i] = "clamp" THEN Clamp(p) ELSE p

\* C13: the patch the terminal committer merges is the one the last
\* middleware forwarded, each middleware having received what the one before
\* it forwarded; the state a non-forced write commits is the current state
\* merged with that patch, not with the caller's patch.
C13_ForwardedPatchCommitted ==
    /\ \A j \in Events("mw") \cup Events("base") :
          trace[j - 1].t = "mw" =>
             trace[j].patch = Forwarded(trace[j - 1].i, trace[j - 1].patch)
    /\ \A c \in Events("commit") :
          trace[c].via = "baseSet" /\ kind = "rec" =>
             /\ trace[c].next.val = Merge(trace[c].prev.val, trace[c - 1].patch)
             /\ state.val = Merge(trace[1].before.val, trace[c - 1].patch)

\* the caller wrote a value the middleware lowered: the committed field holds
\* the lowered value
C13_Witness ==
    /\ kind = "rec"
    /\ mws = <<"clamp", "pass">>
    /\ trace # <<>> /\ trace[1].name = "setValue"
    /\ \E f \in DOMAIN trace[1].res.v :
          /\ trace[1].res.v[f] = MaxVal
          /\ state.val[f] = 1
          /\ trace[1].before.val[f] = 0
    /\ Events("commit") # {}

\* C14: on a record store the patch setImmer hands to the pipeline holds the
\* fields of the draft engine's next state that are not identical to the
\* current state's, with their new values, and the fields the next state no
\* longer has, mapped to undefined; no field that kept its value is in it.
\* (The mutator returns; one that throws hands over nothing.)
C14_ImmerDelta ==
    kind = "rec" /\ trace # <<>> /\ trace[1].name = "setImmer"
       /\ trace[1].res.v.tag # "throw" =>
       LET cur == trace[1].before.val
           nxt == Produce(cur, trace[1].res.v)
           changed == {f \in DOMAIN nxt : f \in DOMAIN cur => nxt[f] # cur[f]}
           removed == (DOMAIN cur) \ (DOMAIN nxt)
       IN  IF changed \cup removed = {} THEN Len(trace) = 1
           ELSE /\ Len(trace) >= 2
                /\ trace[2].t = (IF mws = <<>> THEN "base" ELSE "mw")
                /\ DOMAIN trace[2].patch = changed \cup removed
                /\ \A f \in changed : trace[2].patch[f] = nxt[f]
                /\ \A f \in removed : trace[2].patch[f] = Undef

\* a mutator deleted one field of a state whose other field had been written:
\* the patch is the removal marker for that field alone
C14_Witness ==
    /\ kind = "rec"
    /\ trace # <<>> /\ trace[1].name = "setImmer"
    /\ trace[1].res.v.tag = "del"
    /\ trace[1].before.val[trace[1].res.v.f] \in Vals
    /\ \E g \in Fields \ {trace[1].res.v.f} : trace[1].before.val[g] \in Vals \ {0}
    /\ Len(trace) >= 2
    /\ trace[2].patch = [f \in {trace[1].res.v.f} |-> Undef]
    /\ state.val[trace[1].res.v.f] = Undef

\* C15: when the mutator given to setImmer throws, the handler returns with
\* a warning and nothing else: no middleware is entered, the state cell is the
\* object it was, with every field as before, and no listener is invoked.
C15_MutatorFailure ==
    trace # <<>> /\ trace[1].name = "setImmer" /\ trace[1].res.v.tag = "throw" =>
       /\ Len(trace) = 2
       /\ trace[2].t = "warn" /\ trace[2].src = "immer"
       /\ state = trace[1].before

\* the mutator threw on a store with middleware and a listener, after earlier
\* writes had been committed
C15_Witness ==
    /\ mws # <<>>
    /\ Attached # {}
    /\ state.val # initial.val
    /\ trace # <<>> /\ trace[1].name = "setImmer" /\ trace[1].res.v.tag = "throw"
    /\ \E id \in Attached : subs[id].calls > 0

\* structural equality of two state values: same fields, same primitive under
\* each, a nested object where the other has one (their contents are the same)
SameStructure(v, w) ==
    IF kind # "rec" THEN v = w
    ELSE /\ DOMAIN v = DOMAIN w
         /\ \A f \in DOMAIN v : v[f] = w[f] \/ (IsNested(v[f]) /\ IsNested(w[f]))

\* C16: reset() without argument replaces the state cell by a fresh copy of
\* the initial snapshot and emits it, entering no middleware and not
\* consulting the equality gate; the state it leaves is structurally equal to
\* the snapshot, also when the state it found already was.
C16_ResetUnconditional ==
    trace # <<>> /\ trace[1].name = "reset" =>
       /\ Events("mw") = {} /\ Events("base") = {}
       /\ Len(trace) >= 3
       /\ trace[2].t = "commit" /\ trace[2].via = "reset"
       /\ trace[2].prev = trace[1].before
       /\ trace[3].t = "emit" /\ trace[3].payload = trace[2].next
       /\ state = trace[2].next
       /\ SameStructure(state.val, initial.val)
       /\ kind # "prim" => state.ref \notin {initial.ref, trace[1].before.ref}
       /\ kind = "rec" =>
             \A f \in DOMAIN state.val :
                IsNested(state.val[f]) =>
                   state.val[f] \notin {initial.val[f], trace[1].before.val[f]}

\* reset() ran on a store with a middleware and a listener whose state was
\* already a copy of the snapshot, made by an earlier reset
C16_Witness ==
    /\ kind = "rec"
    /\ mws # <<>>
    /\ Attached # {}
    /\ trace # <<>> /\ trace[1].name = "reset"
    /\ trace[1].before.ref # initial.ref
    /\ SameStructure(trace[1].before.val, initial.val)
    /\ \E f \in DOMAIN initial.val : IsNested(initial.val[f])

\* C17: every reset() without argument invokes each attached whole-state
\* listener, also when the state it finds equals the initial snapshot by
\* value.
C17_ResetObservable ==
    kind = "rec" /\ trace # <<>> /\ trace[1].name = "reset" =>
       \A id \in Attached :
          subs[id].form = "whole" =>
             Cardinality({j \in Events("call") : trace[j].id = id}) = 1

\* C18: on a record store without middleware, a reset(override) that commits
\* leaves exactly the fields and values of the initial snapshot merged with
\* the override, whatever was written before; when that candidate equals the
\* current state nothing is committed or emitted.
C18_ResetOverride ==
    kind = "rec" /\ mws = <<>> /\ trace # <<>> /\ trace[1].name = "resetTo" =>
       LET override  == trace[1].res.v
           candidate == Merge(initial.val, override)
       IN  /\ Events("commit") # {} =>
                /\ SameStructure(state.val, candidate)
                /\ \A f \in DOMAIN override : state.val[f] = override[f]
           /\ candidate = trace[1].before.val
                /\ (\A f \in DOMAIN candidate : ~IsNested(candidate[f])) =>
                /\ Len(trace) = 1
                /\ state = trace[1].before

\* C19: on a store whose state is a primitive, reset(p) with a primitive p
\* that is not identical to the state leaves p as the state; with p identical
\* to the state it does nothing.
C19_ResetPrimitive ==
    trace # <<>> /\ trace[1].name = "resetPrim" /\ IsPrim(trace[1].before.val) =>
       IF trace[1].res.v # trace[1].before.val
       THEN state.val = trace[1].res.v
       ELSE Len(trace) = 1 /\ state = trace[1].before

\* C20: isDirty() is false right after construction and right after every
\* reset() without argument, whatever the initial state, a record with a
\* nested record or array among its fields included.
C20_CleanAfterReset ==
    ops = 0 \/ trace[1].name = "reset" => ~isDirty

\* the last handler was a setValue (direct, or with a function that returned)
\* and it committed
AcceptedSetValue ==
    /\ trace # <<>>
    /\ trace[1].name \in {"setValue", "setValueFn"}
    /\ Events("commit") # {}

\* C21 as stated: isDirty() is true right after every accepted setValue that
\* changes at least one field, wherever in the store's history.
C21_DirtyAfterWrite ==
    kind = "rec" /\ AcceptedSetValue /\ state.val # trace[1].before.val => isDirty

\* C21 as the code has it: right after an accepted setValue isDirty() is true
\* exactly when the committed state differs from the initial snapshot in some
\* field; a write that brings every field back to its initial value leaves
\* the store clean.
C21_DirtyIffDiffers ==
    AcceptedSetValue => (isDirty <=> state.val # initial.val)

\* an accepted write changed a field back to its initial value: the state is
\* a new object equal to the snapshot
C21_Witness ==
    /\ kind = "rec"
    /\ AcceptedSetValue
    /\ state.val # trace[1].before.val
    /\ state.val = initial.val
    /\ state.ref # initial.ref
    /\ ~isDirty

\* C22: no operation changes the initial snapshot: in every step it keeps
\* the object and the value it had at construction; getInitialValue()
\* returns that value in an object that is not the snapshot itself.
C22_SnapshotStable ==
    [][/\ initial' = initial
       /\ trace'[1].name = "getInitialValue" =>
             /\ trace'[2].value.val = initial.val
             /\ trace'[2].value.ref # initial.ref
             /\ state' = state]_vars

\* getInitialValue() was called after a reset with an override and other
\* writes had been committed on a store whose snapshot holds a nested object
C22_Witness ==
    /\ initial.val = InitialNested
    /\ trace # <<>> /\ trace[1].name = "getInitialValue"
    /\ trace[2].value = [ref |-> trace[2].value.ref, val |-> InitialNested]
    /\ trace[2].value.ref \notin {0, state.ref}
    /\ state.val["a"] # 0
    /\ IsNested(state.val["b"]) /\ state.val["b"] # Nested(0)

\* two subscribe calls were given the same listener function
SameListener(i, j) ==
    /\ subs[i].form = subs[j].form
    /\ subs[i].sel = subs[j].sel
    /\ subs[i].beh = subs[j].beh

\* C23: calling the unsubscribe function of a subscribe call detaches that
\* call's wrapper and no other, a second call of it changes nothing, and a
\* detached listener is never attached or invoked again.
C23_Unsubscribe ==
    [][\A id \in 1..Len(subs) :
          /\ id \notin Attached =>
                /\ id \notin Attached'
                /\ subs'[id].calls = subs[id].calls
          /\ trace'[1].name = "unsubscribe" =>
                /\ subs' = subs /\ state' = state
                /\ IF id = trace'[1].res.v THEN id \notin Attached'
                   ELSE id \in Attached' <=> id \in Attached]_vars

\* a commit invoked a listener whose function had also been given to
\* another subscribe call, unsubscribed since: that one was not invoked
C23_Witness ==
    \E i, j \in 1..Len(subs) :
       /\ i \notin Attached /\ j \in Attached
       /\ SameListener(i, j)
       /\ \E c \in Events("call") : trace[c].id = j
       /\ \A c \in Events("call") : trace[c].id # i
       /\ \E c \in Events("call") : trace[c].id = j
       /\ \A c \in Events("call") : trace[c].id # i

\* C24: getNumberOfSubscriber() counts the subscribe calls not yet
\* unsubscribed, of both forms: a subscribe call adds one, the first call of
\* an unsubscribe function takes one away, and no write, reset or dispatch
\* changes it.
C24_SubscriberCount ==
    [][/\ getNumberOfSubscriber' = getNumberOfSubscriber +
             (CASE trace'[1].name = "subscribe" -> 1
                [] trace'[1].name = "unsubscribe" ->
                      IF trace'[1].res.v \in Attached THEN 0 - 1 ELSE 0
                [] OTHER -> 0)
       /\ getNumberOfSubscriber' = Cardinality(Attached')
       /\ Attached' \subseteq 1..Len(subs')]_vars

\* a reset was dispatched while one of two subscriptions, a whole-state and
\* a selector one, had been unsubscribed
C24_Witness ==
    /\ Len(subs) = 2
    /\ subs[1].form # subs[2].form
    /\ getNumberOfSubscriber = 1
    /\ trace[1].name \in {"reset", "resetTo", "resetPrim"}
    /\ Events("emit") # {}

\* C25: when a listener throws during an emission, the emission goes on:
\* every function registered for the event is called once for it, in
\* registration order, the exception is logged and does not reach the caller
\* of the write, and the state committed before the dispatch stays.
C25_ListenerFaultIsolated ==
    \A e \in Events("emit") :
       /\ \A k \in 1..Len(order) :
             Cardinality({d \in Events("deliver") : d > e /\ trace[d].id = order[k]}) = 1
       /\ \A d1, d2 \in Events("deliver") :
             d1 < d2 => \E k1, k2 \in 1..Len(order) :
                          k1 < k2 /\ order[k1] = trace[d1].id /\ order[k2] = trace[d2].id
       /\ \A w \in Events("warn") :
             /\ trace[w].src = "listener"
             /\ trace[w - 1].t = "call"
             /\ subs[trace[w - 1].id].beh = "throw"
       /\ state = trace[e].payload
       /\ trace[e - 1].t = "commit" /\ trace[e - 1].next = state

\* the first registered listener threw and the second, registered after it,
\* was still called for the same emission
C25_Witness ==
    /\ Len(order) = 2
    /\ subs[order[1]].beh = "throw" /\ subs[order[2]].beh = "ok"
    /\ \E w \in Events("warn"), c \in Events("call") :
          /\ w < c
          /\ trace[w - 1].id = order[1]
          /\ trace[c].id = order[2]
    /\ state.val # trace[1].before.val

\* the one-shot wrappers registered for listener l
OneShots(q, l) == {k \in 1..Len(q) : q[k].fn = l /\ q[k].w > 0}

\* C26: a one-shot registration invokes its listener at most once, also when
\* an emission is started from inside a listener: the wrapper that ran is
\* registered no more; and after off(event, listener) with the listener given
\* to once, no one-shot wrapper of that listener is left to invoke it or to
\* be counted.
C26_OnceAndOff ==
    [][/\ \A c \in {i \in DOMAIN trace' : trace'[i].t = "call" /\ trace'[i].w > 0} :
             /\ \E k \in 1..Len(order) : order[k] = [fn |-> trace'[c].fn, w |-> trace'[c].w]
             /\ \A k \in 1..Len(order') : order'[k].w # trace'[c].w
             /\ \A d \in DOMAIN trace' :
                   trace'[d].t = "call" /\ trace'[d].w = trace'[c].w => d = c
       /\ trace'[1].name = "off" /\ OneShots(order, trace'[1].res.v) # {} =>
             /\ OneShots(order', trace'[1].res.v) = {}
             /\ Len(order') < Len(order)]_vars

\* C27: a value that is not an object, given to setValue directly, returned
\* by its function or resolved by its promise, forced or not, commits
\* nothing: no middleware is entered, the state cell is the object it was and
\* no listener is invoked.
C27_NonObjectIgnored ==
    trace # <<>> /\ trace[1].res.tag = "prim" =>
       /\ trace[1].name \in {"setValue", "setValueFn", "settle"}
       /\ Len(trace) = 1
       /\ state = trace[1].before

\* a forced promise resolved to a non-object on a store that had been written
\* and has a listener
C27_Witness ==
    /\ Attached # {}
    /\ state.val # initial.val
    /\ trace # <<>> /\ trace[1].name = "settle"
    /\ trace[1].forced
    /\ trace[1].res.tag = "prim"

\* C28: when the next state the draft engine returns equals the current state
\* under the equality predicate, setImmer does nothing: no middleware is
\* entered, the state cell keeps its object and no listener is invoked.
C28_ImmerNoOp ==
    /\ trace # <<>> /\ trace[1].name = "setImmer"
    /\ trace[1].res.v.tag # "throw"
    /\ ShallowVal(trace[1].before.val, Produce(trace[1].before.val, trace[1].res.v))
    => /\ Len(trace) = 1
       /\ state = trace[1].before

\* a mutator that wrote a field's own value, or popped an empty array, ran
\* on a store with middleware and a listener
C28_Witness ==
    /\ mws # <<>>
    /\ Attached # {}
    /\ trace # <<>> /\ trace[1].name = "setImmer"
    /\ trace[1].res.v.tag \in {"set", "pop"}
    /\ Produce(trace[1].before.val, trace[1].res.v) = trace[1].before.val
    /\ state.ref # initial.ref

\* C29: on a record store every patch the store derives itself and sends into
\* the middleware chain, by setImmer or by reset with a record argument, holds
\* only fields whose value differs from the current state's.
C29_DerivedPatchIsDelta ==
    kind = "rec" /\ trace # <<>> /\ trace[1].name \in {"setImmer", "resetTo"} =>
       \A j \in Events("mw") :
          trace[j].i = 1 =>
             \A f \in DOMAIN trace[j].patch :
                f \in DOMAIN trace[1].before.val =>
                   trace[j].patch[f] # trace[1].before.val[f]

\* C30: whenever a subscriber callback is invoked, on a gated commit, a forced
\* setValue or a reset(), its two arguments are not equal under the equality
\* predicate: two states for a whole-state listener, two slices for a selector
\* listener.
C30_CallArgumentsDiffer ==
    \A c \in Events("call") :
       /\ trace[1].name \in {"setValue", "reset"}
       /\ IF trace[c].form = "sel" THEN ~SliceEqual(trace[c].prev, trace[c].next)
          ELSE ~AreEqual(trace[c].prev, trace[c].next)

\* a forced write invoked a whole-state listener whose remembered state was
\* not the one the write found, and a selector listener with it
C30_Witness ==
    /\ trace # <<>> /\ trace[1].name = "setValue" /\ trace[1].forced
    /\ \E c, d \in Events("call") :
          /\ trace[c].form = "whole"
          /\ trace[c].prev # trace[1].before
          /\ trace[d].form = "sel"

\* the invocations of subscription id's listener in a handler's trace
CallsIn(tr, id) == {i \in DOMAIN tr : tr[i].t = "call" /\ tr[i].id = id}

\* C31: the notifications of a subscription form a chain: the prev argument of
\* each invocation is the next argument of the subscription's preceding
\* invocation, in this handler or an earlier one (what the wrapper was seeded
\* with at subscribe time for the first), also when listeners throw or write
\* to the store while being notified.
C31_NotificationChain ==
    [][\A id \in 1..Len(subs) :
          \A c \in CallsIn(trace', id) :
             LET earlier == {d \in CallsIn(trace', id) : d < c}
             IN  trace'[c].prev =
                    IF earlier = {} THEN subs[id].seen
                    ELSE trace'[CHOOSE d \in earlier : \A e \in earlier : e <= d].next]_vars

\* the handler invoked a whole-state listener that writes to the store
WroteInDispatch ==
    \E c \in Events("call") :
       trace[c].form = "whole" /\ subs[trace[c].id].beh = "write"

\* C32: when a whole-state listener has written to the store during a
\* dispatch, then after the outermost dispatch has returned the last next
\* value given to every attached whole-state listener is the committed state.
C32_ReentrantWriteDelivered ==
    WroteInDispatch =>
       \A id \in Attached :
          subs[id].form = "whole" => subs[id].seen.val = state.val

\* C33: on a record store without middleware, a setImmer that commits leaves
\* the state with the fields and the field values of the draft engine's next
\* state; a field the mutator deleted is absent from the committed state.
C33_ImmerCommitsNextState ==
    /\ kind = "rec" /\ mws = <<>>
    /\ trace # <<>> /\ trace[1].name = "setImmer"
    /\ Events("commit") # {}
    => /\ DOMAIN state.val = DOMAIN Produce(trace[1].before.val, trace[1].res.v)
       /\ state.val = Produce(trace[1].before.val, trace[1].res.v)

====
